---------------------------- MODULE Spec2Model ----------------------------
(***************************************************************************)
(* Model of the MonoPay client middleware (src/src/middleware.js):         *)
(* createMonoPayMiddleware / monoPayFetch / createAndSignTransaction.      *)
(*                                                                         *)
(* A logical call is one invocation of monoPayFetch.  Every `await` of the *)
(* code is a suspension point; an action of the model is the completion of *)
(* one awaited promise (resolved or rejected) followed by all synchronous  *)
(* code up to the next await, the return, or the end of the catch block.   *)
(***************************************************************************)
EXTENDS Integers, Sequences, FiniteSets, TLC

VARIABLES
    options,   \* the options object given to createMonoPayMiddleware
    phantom,   \* window.phantom.solana, the wallet shared by all calls
    calls      \* calls[c]: the state of logical call c of monoPayFetch

vars == <<options, phantom, calls>>

-----------------------------------------------------------------------------
(* Bounds of the model *)

\* longest raw signature (in bytes) the wallet returns in the model
MaxSigLen == 2

(* Program constants *)

\* the HTTP status that marks a payment challenge
PaymentRequired == 402

-----------------------------------------------------------------------------
(* JavaScript objects are functions from property names to values; a       *)
(* property that is undefined is not in the domain.                        *)

EmptyObject == [k \in {} |-> ""]

Has(obj, k) == k \in DOMAIN obj

\* { ...a, ...b }: the properties of a overridden by those of b
Assign(a, b) ==
    [k \in (DOMAIN a) \cup (DOMAIN b) |-> IF k \in DOMAIN b THEN b[k] ELSE a[k]]

\* A headers value of RequestInit: a plain object literal or a Headers
\* instance; `entries` maps header names to values.
PlainHeaders(entries) == [type |-> "object", entries |-> entries]
HeadersInstance(entries) == [type |-> "Headers", entries |-> entries]

\* The header list the transport sends for a RequestInit
HeaderList(init) ==
    IF Has(init, "headers") THEN init["headers"].entries ELSE EmptyObject

\* The own enumerable properties an object spread copies, as in
\* { ...fetchOptions.headers }: the entries of a plain object; a Headers
\* instance keeps its entries in internal slots and has none; undefined
\* spreads to nothing.
SpreadHeaders(init) ==
    IF Has(init, "headers") /\ init["headers"].type = "object"
    THEN init["headers"].entries
    ELSE EmptyObject

-----------------------------------------------------------------------------
(* Input domains *)

Urls == {"/x", "/y"}

\* header values are texts: sequences of characters or of longer pieces
HeaderEntries ==
    { EmptyObject,
      [k \in {"accept"} |-> <<"application/json">>],
      [k \in {"accept", "x-tx-signature"} |->
          IF k = "accept" THEN <<"application/json">> ELSE <<"stale">>] }

HeaderInits ==
    { PlainHeaders(e) : e \in HeaderEntries }
    \cup { HeadersInstance([k \in {"accept"} |-> <<"application/json">>]) }

\* the second argument of monoPayFetch (default {}); `signal` is the
\* AbortSignal by which the caller cancels the call
FetchOptionsSet ==
    { EmptyObject }
    \cup { [k \in {"signal"} |-> "AbortSignal"] }
    \cup { [k \in {"headers", "signal"} |->
              IF k = "signal" THEN "AbortSignal"
              ELSE PlainHeaders([h \in {"accept"} |-> <<"application/json">>])] }
    \cup { [k \in {"headers"} |-> h] : h \in HeaderInits }
    \cup { [k \in {"method", "body", "headers"} |->
              CASE k = "method" -> "POST"
                [] k = "body" -> "payload"
                [] OTHER -> h] : h \in HeaderInits }

\* response bodies (serialized), and what Response.json() makes of them
Bodies == {"challenge:ADDR1", "challenge:bogus", "<html>"}

Statuses == {200, PaymentRequired, 500}

Responses == [status : Statuses, body : Bodies]

NoResponse == [status |-> 0, body |-> ""]

JsonParses(body) == body \in {"challenge:ADDR1", "challenge:bogus"}

ParseJson(body) ==
    [requiresPayment |-> TRUE,
     serviceId |-> "svc",
     wallet |-> IF body = "challenge:ADDR1" THEN "ADDR1" ELSE "bogus",
     priceLamports |-> 5000000,
     message |-> "pay"]

NoConfig ==
    [requiresPayment |-> FALSE, serviceId |-> "", wallet |-> "",
     priceLamports |-> 0, message |-> ""]

\* new PublicKey(str) throws unless str is a well-formed address
IsAddress(str) == str \in {"ADDR1"}

CallbackKinds == {"absent", "returns", "throws"}

DefaultRpcUrl == "https://api.devnet.solana.com"

\* Errors
ErrTransport1 == "TypeError: Failed to fetch"
ErrTransport2 == "TypeError: NetworkError on retry"
ErrJson == "SyntaxError: Unexpected token"
ErrNoWallet == "Phantom wallet not found. Please install Phantom extension."
ErrConnect == "User rejected the connect request."
ErrAddress == "Invalid public key input"
ErrRpc == "failed to get recent blockhash"
ErrSign == "User rejected the sign request."
ErrStartCb == "onPaymentStart threw"
ErrSuccessCb == "onPaymentSuccess threw"
ErrErrorCb == "onPaymentError threw"

TransportErrors == {ErrTransport1, ErrTransport2}

\* the rejection of a fetch or of a body read whose signal was aborted
ErrAbort == "AbortError: The user aborted a request."

\* raw signatures: byte strings of length at most MaxSigLen
SigBytes == {0, 255}

RECURSIVE SeqsUpTo(_, _)
SeqsUpTo(S, n) ==
    IF n = 0 THEN { <<>> }
    ELSE LET shorter == SeqsUpTo(S, n - 1)
         IN shorter \cup { Append(s, x) : s \in shorter, x \in S }

RawSignatures == SeqsUpTo(SigBytes, MaxSigLen)


-----------------------------------------------------------------------------
(* bs58.encode: leading zero bytes become leading "1"s, the rest is the    *)
(* big-endian number the bytes spell, written in base 58 with the Bitcoin  *)
(* alphabet.  The text is a sequence of one-character strings.             *)

ALPHABET ==
    << "1","2","3","4","5","6","7","8","9",
       "A","B","C","D","E","F","G","H","J","K","L","M","N","P","Q","R","S",
       "T","U","V","W","X","Y","Z",
       "a","b","c","d","e","f","g","h","i","j","k","m","n","o","p","q","r",
       "s","t","u","v","w","x","y","z" >>

RECURSIVE BytesToNat(_)
BytesToNat(bytes) ==
    IF bytes = <<>> THEN 0
    ELSE 256 * BytesToNat(SubSeq(bytes, 1, Len(bytes) - 1)) + bytes[Len(bytes)]

RECURSIVE LeadingZeros(_)
LeadingZeros(bytes) ==
    IF bytes = <<>> \/ Head(bytes) # 0 THEN 0
    ELSE 1 + LeadingZeros(Tail(bytes))

RECURSIVE Base58Digits(_)
Base58Digits(n) ==
    IF n = 0 THEN <<>>
    ELSE Append(Base58Digits(n \div Len(ALPHABET)),
                ALPHABET[(n % Len(ALPHABET)) + 1])

Bs58Encode(bytes) ==
    [i \in 1..LeadingZeros(bytes) |-> ALPHABET[1]]
        \o Base58Digits(BytesToNat(bytes))

-----------------------------------------------------------------------------
(* The state of one logical call *)

IdleCall ==
    [pc |-> "idle",
     url |-> "",
     fetchOptions |-> EmptyObject,
     initialResponse |-> NoResponse,
     paymentConfig |-> NoConfig,
     fromPubkey |-> "",
     rawSignature |-> <<>>,
     signature |-> <<>>,
     retryResponse |-> NoResponse,
     settled |-> "pending",       \* "pending", "returned" or "rejected"
     returned |-> NoResponse,     \* the response the promise resolved with
     error |-> "",                \* the error the promise rejected with
     caught |-> "",               \* the err the catch block was entered with
     log |-> <<>>]                \* the operations of the call, in order

\* record one operation of the call: a transport, wallet or RPC request, a
\* read of the wallet's state, or an observer callback invocation
Emit(s, op, arg) == [s EXCEPT !.log = Append(@, [op |-> op, arg |-> arg])]

\* `return response` inside the try block
Return(s, response) ==
    [s EXCEPT !.pc = "done", !.settled = "returned", !.returned = response]

\* `throw err` out of the catch block
Throw(s, err) ==
    [s EXCEPT !.pc = "done", !.settled = "rejected", !.error = err]

\* a catch block that asks the wallet to sign once more after a rejected
\* signing request
CatchAndSignAgain(s, err) ==
    LET s1 == [s EXCEPT !.caught = err]
        asked == { i \in DOMAIN s.log : s.log[i].op = "signTransaction" }
    IN  CASE err = ErrSign /\ Cardinality(asked) < 2 ->
                [Emit(s, "signTransaction", s.log[CHOOSE i \in asked : TRUE].arg)
                    EXCEPT !.pc = "sign"]
          [] options.onPaymentError = "absent" -> Throw(s1, err)
          [] options.onPaymentError = "returns" ->
                Throw(Emit(s1, "onPaymentError", err), err)
          [] OTHER -> Throw(Emit(s1, "onPaymentError", err), ErrErrorCb)

\* catch (err) { if (onPaymentError) onPaymentError(err); throw err; }
\* An exception thrown by onPaymentError itself leaves the catch block in
\* place of err.
Catch(s, err) ==
    LET s1 == [s EXCEPT !.caught = err]
    IN  CASE options.onPaymentError = "absent" -> Throw(s1, err)
          [] options.onPaymentError = "returns" ->
                Throw(Emit(s1, "onPaymentError", err), err)
          [] options.onPaymentError = "throws" ->
                Throw(Emit(s1, "onPaymentError", err), ErrErrorCb)

\* a status test that takes every client or server error for a challenge
IsChallengeAnyError(response) == response.status >= 400

\* if (initialResponse.status !== 402)
IsChallenge(response) == response.status = PaymentRequired

\* rpcUrl = "https://api.devnet.solana.com" when the option is undefined
RpcUrl == IF options.rpcUrl = "undefined" THEN DefaultRpcUrl ELSE options.rpcUrl

\* the transaction handed to phantom.signTransaction
Transaction(blockhash, fromPubkey, paymentConfig) ==
    [recentBlockhash |-> blockhash,
     feePayer |-> fromPubkey,
     instructions |-> << [program |-> "SystemProgram.transfer",
                          fromPubkey |-> fromPubkey,
                          toPubkey |-> paymentConfig.wallet,
                          lamports |-> paymentConfig.priceLamports] >>]

\* the RequestInit of the retried request:
\* { ...fetchOptions, headers: { ...fetchOptions.headers, "x-tx-signature": signature } }
RetryInit(fetchOptions, signature) ==
    Assign(fetchOptions,
           [k \in {"headers"} |->
               PlainHeaders(Assign(SpreadHeaders(fetchOptions),
                                   [h \in {"x-tx-signature"} |-> signature]))])

\* the target of the retried request
RetryUrl(s) == s.url

-----------------------------------------------------------------------------
(* Synchronous stretches of the code between two awaits *)

\* a stretch that fetches the blockhash before it resolves the payout
\* address
ResolveAndFetchBlockhashRpcFirst(s, wallet) ==
    [Emit(Emit([s EXCEPT !.fromPubkey = wallet.publicKey],
               "publicKey", wallet.publicKey),
          "getLatestBlockhash", RpcUrl) EXCEPT !.pc = "rpc"]

\* createAndSignTransaction from the read of phantom.publicKey to the await
\* of connection.getLatestBlockhash(); `wallet` is the wallet as it is then
ResolveAndFetchBlockhash(s, wallet) ==
    LET s1 == Emit([s EXCEPT !.fromPubkey = wallet.publicKey],
                   "publicKey", wallet.publicKey)
        s2 == Emit(s1, "PublicKey", s.paymentConfig.wallet)
    IN  IF ~IsAddress(s.paymentConfig.wallet)
        THEN Catch(s2, ErrAddress)
        ELSE [Emit(s2, "getLatestBlockhash", RpcUrl) EXCEPT !.pc = "rpc"]

\* an entry that never looks at phantom.isConnected
EnterCreateAndSignUnchecked(s, wallet) ==
    IF ~wallet.present
    THEN Catch(s, ErrNoWallet)
    ELSE ResolveAndFetchBlockhash(s, wallet)

\* an entry that asks the wallet to connect whatever it reports
EnterCreateAndSignAlwaysConnect(s, wallet) ==
    IF ~wallet.present
    THEN Catch(s, ErrNoWallet)
    ELSE [Emit(Emit(s, "isConnected", wallet.isConnected), "connect", "")
             EXCEPT !.pc = "connect"]

\* createAndSignTransaction from its entry to its first await
EnterCreateAndSign(s, wallet) ==
    IF ~wallet.present
    THEN Catch(s, ErrNoWallet)
    ELSE LET s1 == Emit(s, "isConnected", wallet.isConnected)
         IN  IF ~wallet.isConnected
             THEN [Emit(s1, "connect", "") EXCEPT !.pc = "connect"]
             ELSE ResolveAndFetchBlockhash(s1, wallet)

\* monoPayFetch from the parsed challenge to the first await of
\* createAndSignTransaction: if (onPaymentStart) onPaymentStart(); ...
StartPayment(s, wallet) ==
    CASE options.onPaymentStart = "absent" -> EnterCreateAndSign(s, wallet)
      [] options.onPaymentStart = "returns" ->
            EnterCreateAndSign(Emit(s, "onPaymentStart", ""), wallet)
      [] options.onPaymentStart = "throws" ->
            Catch(Emit(s, "onPaymentStart", ""), ErrStartCb)

\* a retry that takes the signature from a variable shared by all calls of
\* the wrapper, which holds the signature of whichever call signed before
IssueRetryShared(s) ==
    LET signed == { d \in DOMAIN calls : calls[d].pc = "fetch2" }
        signature == IF signed = {} THEN s.signature
                     ELSE calls[CHOOSE d \in signed : TRUE].signature
    IN  [Emit(s, "fetch", [url |-> RetryUrl(s),
                           init |-> RetryInit(s.fetchOptions, signature)])
            EXCEPT !.pc = "fetch2"]

\* await fetch(url, { ...fetchOptions, headers: {...} })
IssueRetry(s) ==
    [Emit(s, "fetch", [url |-> RetryUrl(s),
                       init |-> RetryInit(s.fetchOptions, s.signature)])
        EXCEPT !.pc = "fetch2"]

\* monoPayFetch from the resolved signature to the await of the retried
\* fetch: if (onPaymentSuccess) onPaymentSuccess(signature); ...
FinishPayment(s) ==
    CASE options.onPaymentSuccess = "absent" -> IssueRetry(s)
      [] options.onPaymentSuccess = "returns" ->
            IssueRetry(Emit(s, "onPaymentSuccess", s.signature))
      [] options.onPaymentSuccess = "throws" ->
            Catch(Emit(s, "onPaymentSuccess", s.signature), ErrSuccessCb)

\* what monoPayFetch does with the initial response
OnInitialResponse(s, response) ==
    LET s1 == [s EXCEPT !.initialResponse = response]
    IN  IF ~IsChallenge(response)
        THEN Return(s1, response)
        ELSE [Emit(s1, "json", "") EXCEPT !.pc = "json"]

\* a dispatcher that hands back the challenge response, not the retried one
OnRetryResponseStale(s, response) ==
    Return([s EXCEPT !.retryResponse = response], s.initialResponse)

\* a dispatcher that treats the retried response like the initial one and
\* chases a second challenge
OnRetryResponseChase(s, response) ==
    LET s1 == [s EXCEPT !.retryResponse = response]
    IN  IF ~IsChallenge(response)
        THEN Return(s1, response)
        ELSE [Emit(s1, "json", "") EXCEPT !.pc = "json",
                                          !.initialResponse = response]

\* what monoPayFetch does with the response of the retried request
OnRetryResponse(s, response) ==
    Return([s EXCEPT !.retryResponse = response], response)

-----------------------------------------------------------------------------
(* Actions *)

\* monoPayFetch(url, fetchOptions) is called with arguments drawn from
\* `urls` and `inits`: the initial request goes out
CallWith(c, urls, inits) ==
    /\ calls[c].pc = "idle"
    /\ \E url \in urls, fetchOptions \in inits :
          calls' = [calls EXCEPT ![c] =
              [Emit([@ EXCEPT !.url = url, !.fetchOptions = fetchOptions],
                    "fetch", [url |-> url, init |-> fetchOptions])
                  EXCEPT !.pc = "fetch1"]]
    /\ UNCHANGED <<options, phantom>>

Call(c) == CallWith(c, Urls, FetchOptionsSet)

\* the initial fetch resolves with a response
InitialFetchResolves(c) ==
    /\ calls[c].pc = "fetch1"
    /\ \E response \in Responses :
          calls' = [calls EXCEPT ![c] = OnInitialResponse(@, response)]
    /\ UNCHANGED <<options, phantom>>

\* the initial fetch rejects (transport failure)
InitialFetchRejects(c) ==
    /\ calls[c].pc = "fetch1"
    /\ \E err \in TransportErrors :
          calls' = [calls EXCEPT ![c] = Catch(@, err)]
    /\ UNCHANGED <<options, phantom>>

\* initialResponse.json() resolves with the parsed challenge
JsonResolves(c) ==
    /\ calls[c].pc = "json"
    /\ JsonParses(calls[c].initialResponse.body)
    /\ calls' = [calls EXCEPT ![c] =
          StartPayment([@ EXCEPT !.paymentConfig =
                            ParseJson(calls[c].initialResponse.body)],
                       phantom)]
    /\ UNCHANGED <<options, phantom>>

\* initialResponse.json() rejects: the body is no JSON
JsonRejects(c) ==
    /\ calls[c].pc = "json"
    /\ ~JsonParses(calls[c].initialResponse.body)
    /\ calls' = [calls EXCEPT ![c] = Catch(@, ErrJson)]
    /\ UNCHANGED <<options, phantom>>

\* phantom.connect() resolves: the wallet is connected and has an identity
ConnectResolves(c) ==
    /\ calls[c].pc = "connect"
    /\ phantom' = [phantom EXCEPT !.isConnected = TRUE, !.publicKey = "PAYER1"]
    /\ calls' = [calls EXCEPT ![c] = ResolveAndFetchBlockhash(@, phantom')]
    /\ UNCHANGED options

\* phantom.connect() rejects
ConnectRejects(c) ==
    /\ calls[c].pc = "connect"
    /\ calls' = [calls EXCEPT ![c] = Catch(@, ErrConnect)]
    /\ UNCHANGED <<options, phantom>>

\* connection.getLatestBlockhash() resolves; the transaction is built and
\* handed to phantom.signTransaction
RpcResolves(c) ==
    /\ calls[c].pc = "rpc"
    /\ \E blockhash \in {"bh1"} :
          calls' = [calls EXCEPT ![c] =
              [Emit(@, "signTransaction",
                    Transaction(blockhash, @.fromPubkey, @.paymentConfig))
                  EXCEPT !.pc = "sign"]]
    /\ UNCHANGED <<options, phantom>>

\* connection.getLatestBlockhash() rejects
RpcRejects(c) ==
    /\ calls[c].pc = "rpc"
    /\ calls' = [calls EXCEPT ![c] = Catch(@, ErrRpc)]
    /\ UNCHANGED <<options, phantom>>

\* phantom.signTransaction(tx) resolves with a signed transaction
SignResolves(c) ==
    /\ calls[c].pc = "sign"
    /\ \E raw \in RawSignatures :
          calls' = [calls EXCEPT ![c] =
              FinishPayment([@ EXCEPT !.rawSignature = raw,
                                      !.signature = Bs58Encode(raw)])]
    /\ UNCHANGED <<options, phantom>>

\* phantom.signTransaction(tx) rejects
SignRejects(c) ==
    /\ calls[c].pc = "sign"
    /\ calls' = [calls EXCEPT ![c] = Catch(@, ErrSign)]
    /\ UNCHANGED <<options, phantom>>

\* the retried fetch resolves with a response
RetryResolves(c) ==
    /\ calls[c].pc = "fetch2"
    /\ \E response \in Responses :
          calls' = [calls EXCEPT ![c] = OnRetryResponse(@, response)]
    /\ UNCHANGED <<options, phantom>>

\* the retried fetch rejects (transport failure)
RetryRejects(c) ==
    /\ calls[c].pc = "fetch2"
    /\ \E err \in TransportErrors :
          calls' = [calls EXCEPT ![c] = Catch(@, err)]
    /\ UNCHANGED <<options, phantom>>

\* the caller aborts the signal it passed in fetchOptions while the initial
\* fetch is pending: the fetch rejects with an AbortError
InitialFetchAborts(c) ==
    /\ calls[c].pc = "fetch1"
    /\ Has(calls[c].fetchOptions, "signal")
    /\ calls' = [calls EXCEPT ![c] = Catch(@, ErrAbort)]
    /\ UNCHANGED <<options, phantom>>

\* the caller aborts while the challenge body is being read
JsonAborts(c) ==
    /\ calls[c].pc = "json"
    /\ Has(calls[c].fetchOptions, "signal")
    /\ calls' = [calls EXCEPT ![c] = Catch(@, ErrAbort)]
    /\ UNCHANGED <<options, phantom>>

\* the caller has aborted by the time the retried fetch is pending (during
\* it, or earlier while the wallet or the RPC endpoint was awaited, which
\* take no signal): the retried request carries the signal of fetchOptions
\* and rejects with an AbortError
RetryAborts(c) ==
    /\ calls[c].pc = "fetch2"
    /\ Has(RetryInit(calls[c].fetchOptions, calls[c].signature), "signal")
    /\ calls' = [calls EXCEPT ![c] = Catch(@, ErrAbort)]
    /\ UNCHANGED <<options, phantom>>

-----------------------------------------------------------------------------
(* Specification: one wrapper instance, one logical call *)

Wallets ==
    { [present |-> FALSE, isConnected |-> FALSE, publicKey |-> "null"],
      [present |-> TRUE, isConnected |-> FALSE, publicKey |-> "null"],
      [present |-> TRUE, isConnected |-> TRUE, publicKey |-> "PAYER1"] }

OptionsSet ==
    [rpcUrl : {"undefined", "https://rpc.example"},
     onPaymentStart : CallbackKinds,
     onPaymentSuccess : CallbackKinds,
     onPaymentError : CallbackKinds]

Init ==
    /\ options \in OptionsSet
    /\ phantom \in Wallets
    /\ calls = [c \in {"call1"} |-> IdleCall]

Next ==
    \/ \E c \in DOMAIN calls : Call(c)
    \/ \E c \in DOMAIN calls : InitialFetchResolves(c)
    \/ \E c \in DOMAIN calls : InitialFetchRejects(c)
    \/ \E c \in DOMAIN calls : JsonResolves(c)
    \/ \E c \in DOMAIN calls : JsonRejects(c)
    \/ \E c \in DOMAIN calls : ConnectResolves(c)
    \/ \E c \in DOMAIN calls : ConnectRejects(c)
    \/ \E c \in DOMAIN calls : RpcResolves(c)
    \/ \E c \in DOMAIN calls : RpcRejects(c)
    \/ \E c \in DOMAIN calls : SignResolves(c)
    \/ \E c \in DOMAIN calls : SignRejects(c)
    \/ \E c \in DOMAIN calls : RetryResolves(c)
    \/ \E c \in DOMAIN calls : RetryRejects(c)
    \/ \E c \in DOMAIN calls : InitialFetchAborts(c)
    \/ \E c \in DOMAIN calls : JsonAborts(c)
    \/ \E c \in DOMAIN calls : RetryAborts(c)

Spec == Init /\ [][Next]_vars

-----------------------------------------------------------------------------
(* Specification: one wrapper instance, two logical calls in flight at     *)
(* once, interleaved at their suspension points.  Both calls pass the same *)
(* options, to either target.                                              *)

TwoCallOptions ==
    { [k \in {"method", "body", "headers", "signal"} |->
          CASE k = "method" -> "POST"
            [] k = "body" -> "payload"
            [] k = "signal" -> "AbortSignal"
            [] OTHER -> PlainHeaders([h \in {"accept"} |-> <<"application/json">>])] }

InitTwo ==
    /\ options \in { o \in OptionsSet :
                        /\ o.rpcUrl = "undefined"
                        /\ o.onPaymentStart = "returns"
                        /\ o.onPaymentSuccess = "returns"
                        /\ o.onPaymentError = "returns" }
    /\ phantom \in Wallets
    /\ calls = [c \in {"call1", "call2"} |-> IdleCall]

NextTwo ==
    \/ \E c \in DOMAIN calls : CallWith(c, Urls, TwoCallOptions)
    \/ \E c \in DOMAIN calls : InitialFetchResolves(c)
    \/ \E c \in DOMAIN calls : InitialFetchRejects(c)
    \/ \E c \in DOMAIN calls : JsonResolves(c)
    \/ \E c \in DOMAIN calls : JsonRejects(c)
    \/ \E c \in DOMAIN calls : ConnectResolves(c)
    \/ \E c \in DOMAIN calls : ConnectRejects(c)
    \/ \E c \in DOMAIN calls : RpcResolves(c)
    \/ \E c \in DOMAIN calls : RpcRejects(c)
    \/ \E c \in DOMAIN calls : SignResolves(c)
    \/ \E c \in DOMAIN calls : SignRejects(c)
    \/ \E c \in DOMAIN calls : RetryResolves(c)
    \/ \E c \in DOMAIN calls : RetryRejects(c)
    \/ \E c \in DOMAIN calls : InitialFetchAborts(c)
    \/ \E c \in DOMAIN calls : JsonAborts(c)
    \/ \E c \in DOMAIN calls : RetryAborts(c)

SpecTwo == InitTwo /\ [][NextTwo]_vars

-----------------------------------------------------------------------------
(* Specification for termination: one logical call, in which every awaited *)
(* external operation eventually completes, by resolving or by rejecting.  *)

Completes ==
    \E c \in DOMAIN calls :
        \/ InitialFetchResolves(c) \/ InitialFetchRejects(c)
        \/ InitialFetchAborts(c)
        \/ JsonResolves(c) \/ JsonRejects(c) \/ JsonAborts(c)
        \/ ConnectResolves(c) \/ ConnectRejects(c)
        \/ RpcResolves(c) \/ RpcRejects(c)
        \/ SignResolves(c) \/ SignRejects(c)
        \/ RetryResolves(c) \/ RetryRejects(c) \/ RetryAborts(c)

LiveSpec == Init /\ [][Next]_vars /\ WF_vars(Completes)

TypeOK ==
    /\ options \in OptionsSet
    /\ phantom \in Wallets
    /\ \A c \in DOMAIN calls :
          /\ calls[c].pc \in {"idle", "fetch1", "json", "connect", "rpc",
                              "sign", "fetch2", "done"}
          /\ calls[c].settled \in {"pending", "returned", "rejected"}
          /\ (calls[c].pc = "done") <=> (calls[c].settled # "pending")

-----------------------------------------------------------------------------
(* Reading a call's log *)

Ops(s) == [i \in DOMAIN s.log |-> s.log[i].op]

At(s, op) == { i \in DOMAIN s.log : s.log[i].op = op }

Count(s, op) == Cardinality(At(s, op))

\* the call has received its initial response
Answered(s) == s.initialResponse # NoResponse

\* the retried request has been issued: it is the second transport call
RetryIssued(s) == Count(s, "fetch") >= 2

RetryIndex(s) == CHOOSE i \in At(s, "fetch") : i > 1

\* every i-th operation named `later` has an operation named `earlier`
\* strictly before it
Precedes(s, earlier, later) ==
    \A i \in At(s, later) : \E j \in At(s, earlier) : j < i

-----------------------------------------------------------------------------
(* Claims *)

\* C1: a call whose initial response has a status other than 402 returns
\* exactly that response, and the single unmodified transport call is the
\* only operation it performs: no wallet interaction, no ledger RPC call,
\* no observer callback.
C1_NonChallengePassesThrough ==
    \A c \in DOMAIN calls :
        LET s == calls[c]
        IN  (Answered(s) /\ s.initialResponse.status # PaymentRequired) =>
                /\ s.settled = "returned"
                /\ s.returned = s.initialResponse
                /\ Ops(s) = <<"fetch">>
                /\ s.log[1].arg = [url |-> s.url, init |-> s.fetchOptions]

C1_Witness ==
    \E c \in DOMAIN calls :
        /\ calls[c].initialResponse.status = 500
        /\ calls[c].settled = "returned"
        /\ options.onPaymentError = "returns"
        /\ phantom.present

\* C2 as stated: every call whose initial response is a 402 challenge has,
\* once it completes, exactly one wallet connect check, exactly one signing
\* request and exactly one retried transport call, in that order.
C2_AlwaysOneOfEach ==
    \A c \in DOMAIN calls :
        LET s == calls[c]
        IN  (s.pc = "done" /\ IsChallenge(s.initialResponse)) =>
                /\ Count(s, "isConnected") = 1
                /\ Count(s, "signTransaction") = 1
                /\ Count(s, "fetch") = 2
                /\ Precedes(s, "isConnected", "signTransaction")
                /\ \A i \in At(s, "signTransaction") : i < RetryIndex(s)

\* C2 amended: after a 402 challenge there is at most one wallet connect
\* check, at most one signing request and at most one retried transport
\* call; a signing request comes only after the connect check, and the
\* retried call only after the signing request, so that a call that issues
\* the retried request has made exactly one of each, in that order.
C2_AtMostOneOfEachInOrder ==
    \A c \in DOMAIN calls :
        LET s == calls[c]
        IN  IsChallenge(s.initialResponse) =>
                /\ Count(s, "isConnected") <= 1
                /\ Count(s, "signTransaction") <= 1
                /\ Count(s, "fetch") <= 2
                /\ Precedes(s, "isConnected", "signTransaction")
                /\ RetryIssued(s) =>
                      /\ Count(s, "isConnected") = 1
                      /\ Count(s, "signTransaction") = 1
                      /\ \A i \in At(s, "signTransaction") : i < RetryIndex(s)

C2_Witness ==
    \E c \in DOMAIN calls :
        /\ IsChallenge(calls[c].initialResponse)
        /\ calls[c].pc = "done"
        /\ RetryIssued(calls[c])
        /\ Count(calls[c], "connect") = 1

\* C3: the retried request goes to the target of the original request with
\* the same method and body; its x-tx-signature header is the encoded
\* signature of this call's signing request, and every other header of the
\* original request is sent again with its value.
C3_RetryPreservesRequest ==
    \A c \in DOMAIN calls :
        LET s == calls[c]
            retry == s.log[RetryIndex(s)].arg
            sent == HeaderList(retry.init)
            original == HeaderList(s.fetchOptions)
        IN  RetryIssued(s) =>
                /\ retry.url = s.url
                /\ \A k \in {"method", "body"} :
                      /\ Has(retry.init, k) <=> Has(s.fetchOptions, k)
                      /\ Has(retry.init, k) => retry.init[k] = s.fetchOptions[k]
                /\ Has(sent, "x-tx-signature")
                /\ sent["x-tx-signature"] = Bs58Encode(s.rawSignature)
                /\ \A h \in (DOMAIN original) \ {"x-tx-signature"} :
                      Has(sent, h) /\ sent[h] = original[h]

\* C4: when the retried request completes with a response the call returns
\* that response whatever its status, and the retried transport call is the
\* last operation of the call: no second challenge parse, no wallet, RPC or
\* callback operation and no third transport call follow it.
C4_RetryResponseReturnedAsIs ==
    \A c \in DOMAIN calls :
        LET s == calls[c]
        IN  s.retryResponse # NoResponse =>
                /\ s.settled = "returned"
                /\ s.returned = s.retryResponse
                /\ Count(s, "fetch") = 2
                /\ Count(s, "json") = 1
                /\ RetryIndex(s) = Len(s.log)

C4_Witness ==
    \E c \in DOMAIN calls :
        /\ calls[c].retryResponse.status = PaymentRequired
        /\ calls[c].retryResponse # calls[c].initialResponse
        /\ calls[c].settled = "returned"
        /\ options.onPaymentSuccess = "returns"

\* C5: a logical call never issues more than two transport calls, whatever
\* the server, the wallet and the RPC endpoint answer.
C5_AtMostTwoTransportCalls ==
    \A c \in DOMAIN calls : Count(calls[c], "fetch") <= 2

C5_Witness ==
    \E c \in DOMAIN calls :
        /\ Count(calls[c], "fetch") = 2
        /\ calls[c].pc = "done"
        /\ IsChallenge(calls[c].retryResponse)
        /\ JsonParses(calls[c].retryResponse.body)

\* errors raised by the steps of proof acquisition (createAndSignTransaction)
AcquisitionErrors == {ErrNoWallet, ErrConnect, ErrAddress, ErrRpc, ErrSign}

\* the observer callbacks that are configured return normally
ObserversReturn ==
    /\ options.onPaymentStart # "throws"
    /\ options.onPaymentSuccess # "throws"
    /\ options.onPaymentError # "throws"

\* C6: with onPaymentSuccess and onPaymentError configured (and every
\* observer returning normally), a completed call whose initial response was
\* a 402 challenge has invoked exactly one of the two: never both, never
\* neither.
C6_ExactlyOneOutcomeCallback ==
    \A c \in DOMAIN calls :
        LET s == calls[c]
        IN  ( /\ s.pc = "done"
              /\ IsChallenge(s.initialResponse)
              /\ options.onPaymentSuccess = "returns"
              /\ options.onPaymentError = "returns"
              /\ ObserversReturn ) =>
                Count(s, "onPaymentSuccess") + Count(s, "onPaymentError") = 1

\* C7: with onPaymentStart configured (and every observer returning
\* normally), onPaymentStart is invoked at most once in a call and every
\* invocation of onPaymentSuccess or onPaymentError comes strictly after it.
C7_StartPrecedesOutcome ==
    \A c \in DOMAIN calls :
        LET s == calls[c]
        IN  (options.onPaymentStart = "returns" /\ ObserversReturn) =>
                /\ Count(s, "onPaymentStart") <= 1
                /\ Precedes(s, "onPaymentStart", "onPaymentSuccess")
                /\ Precedes(s, "onPaymentStart", "onPaymentError")

\* C8: when a step of proof acquisition fails (wallet absent, connect
\* rejected, payout address malformed, RPC fetch failed, signing rejected)
\* and onPaymentError is configured, onPaymentError is invoked exactly once
\* with that error, the call rejects with that same error, onPaymentSuccess
\* is not invoked and no retried request is issued.
C8_AcquisitionFailureReported ==
    \A c \in DOMAIN calls :
        LET s == calls[c]
        IN  (s.caught \in AcquisitionErrors /\ options.onPaymentError # "absent") =>
                /\ Count(s, "onPaymentError") = 1
                /\ \A i \in At(s, "onPaymentError") : s.log[i].arg = s.caught
                /\ s.settled = "rejected"
                /\ s.error = s.caught
                /\ Count(s, "onPaymentSuccess") = 0
                /\ Count(s, "fetch") = 1

\* C9: a completed call that received a (well-formed) 402 challenge while
\* the wallet capability is absent has rejected with the wallet-unavailable
\* error and has issued no ledger RPC call, no connect request and no
\* signing request.
C9_NoWalletFailsUnavailable ==
    \A c \in DOMAIN calls :
        LET s == calls[c]
        IN  ( /\ s.pc = "done"
              /\ IsChallenge(s.initialResponse)
              /\ JsonParses(s.initialResponse.body)
              /\ ~phantom.present ) =>
                /\ s.settled = "rejected"
                /\ s.error = ErrNoWallet
                /\ Count(s, "getLatestBlockhash") = 0
                /\ Count(s, "connect") = 0
                /\ Count(s, "signTransaction") = 0

\* C10: a transport failure of the initial or of the retried request is
\* raised to the caller as the error the transport produced, and the failed
\* request is not reissued: one transport call after a failed initial
\* request, two after a failed retried request.
C10_TransportFailurePropagates ==
    \A c \in DOMAIN calls :
        LET s == calls[c]
        IN  s.caught \in TransportErrors =>
                /\ s.settled = "rejected"
                /\ s.error = s.caught
                /\ Count(s, "fetch") = IF Answered(s) THEN 2 ELSE 1

\* the errors thrown by the observer callbacks themselves
ObserverErrors == {ErrStartCb, ErrSuccessCb, ErrErrorCb}

\* C11: the observer callbacks never alter control flow.  With the
\* callbacks absent no run can enter the catch block with, or reject with,
\* an error thrown by an observer; so if the runs with throwing callbacks are
\* to have the operations and outcome of the runs without, no call is ever
\* cut short by, or rejected with, an observer's error.
C11_ObserversNeverAlterOutcome ==
    \A c \in DOMAIN calls :
        /\ calls[c].caught \notin ObserverErrors
        /\ calls[c].error \notin ObserverErrors

\* C12: a cancellation by the caller (the AbortError of an aborted signal)
\* reaches the caller as it is and is not reported as a payment error:
\* onPaymentError is not invoked for it.
C12_CancellationNotAPaymentError ==
    \A c \in DOMAIN calls :
        LET s == calls[c]
        IN  s.caught = ErrAbort =>
                /\ s.settled = "rejected"
                /\ s.error = ErrAbort
                /\ \A i \in At(s, "onPaymentError") : s.log[i].arg # ErrAbort

\* what one call shows of itself: its operations and outcome rest on its own
\* arguments, its own responses and its own signature
OwnRun(s) ==
    /\ \A i \in At(s, "fetch") : s.log[i].arg.url = s.url
    /\ \A i \in At(s, "isConnected") :
          (Count(s, "connect") = 1) <=> (s.log[i].arg = FALSE)
    /\ \A i \in At(s, "onPaymentSuccess") :
          s.log[i].arg = Bs58Encode(s.rawSignature)
    /\ RetryIssued(s) =>
          LET sent == HeaderList(s.log[RetryIndex(s)].arg.init)
          IN  /\ Has(sent, "x-tx-signature")
              /\ sent["x-tx-signature"] = Bs58Encode(s.rawSignature)
    /\ s.settled = "returned" =>
          s.returned = IF RetryIssued(s) THEN s.retryResponse
                       ELSE s.initialResponse
    /\ s.settled = "rejected" => s.caught # ""

\* a step moves one call and leaves every other call as it was
OneCallMoves ==
    \A c \in DOMAIN calls :
        calls'[c] # calls[c] =>
            \A d \in (DOMAIN calls) \ {c} : calls'[d] = calls[d]

\* C13: two calls through one wrapper, interleaved in any way at their
\* suspension points, are independent: every step moves one call and leaves
\* the other untouched, each call's operations and outcome rest on its own
\* arguments and responses, and the x-tx-signature of each call's retried
\* request is the encoding of that call's own signature.
C13_InterleavedCallsIndependent ==
    /\ [](\A c \in DOMAIN calls : OwnRun(calls[c]))
    /\ [][OneCallMoves]_vars

\* both calls have issued their retried request, with different proofs
C13_Witness ==
    /\ Cardinality(DOMAIN calls) = 2
    /\ \A c \in DOMAIN calls : RetryIssued(calls[c])
    /\ \E c, d \in DOMAIN calls :
          /\ calls[c].rawSignature # calls[d].rawSignature
          /\ calls[c].url # calls[d].url
          /\ calls[c].pc = "fetch2" /\ calls[d].pc = "fetch2"

\* C14: with onPaymentStart configured, it is invoked in every completed
\* call whose initial response was a 402, also when the challenge body then
\* fails to parse, and in no call whose initial response was not a 402.
C14_StartOnEveryChallenge ==
    \A c \in DOMAIN calls :
        LET s == calls[c]
        IN  options.onPaymentStart # "absent" =>
                /\ (s.pc = "done" /\ IsChallenge(s.initialResponse)) =>
                      Count(s, "onPaymentStart") = 1
                /\ (Answered(s) /\ ~IsChallenge(s.initialResponse)) =>
                      Count(s, "onPaymentStart") = 0

\* C15: when the initial request fails at transport level the call has no
\* side effect beyond that one transport call: no observer callback, no
\* wallet interaction and no RPC call.
C15_InitialFailureHasNoSideEffect ==
    \A c \in DOMAIN calls :
        LET s == calls[c]
        IN  (~Answered(s) /\ s.caught \in TransportErrors) =>
                Ops(s) = <<"fetch">>

WalletOps == {"isConnected", "connect", "publicKey", "signTransaction"}

\* C17: acquisition runs in order: onPaymentStart (when configured) before
\* any wallet operation, payout-address resolution before the RPC recency
\* fetch, that before the signing request, that before onPaymentSuccess
\* (when configured), that before the retried request; so a challenge with a
\* malformed payout address ends with no RPC call and no signing request.
C17_AcquisitionInOrder ==
    \A c \in DOMAIN calls :
        LET s == calls[c]
        IN  /\ options.onPaymentStart # "absent" =>
                  \A op \in WalletOps : Precedes(s, "onPaymentStart", op)
            /\ Precedes(s, "PublicKey", "getLatestBlockhash")
            /\ Precedes(s, "getLatestBlockhash", "signTransaction")
            /\ Precedes(s, "signTransaction", "onPaymentSuccess")
            /\ RetryIssued(s) =>
                  /\ \E i \in At(s, "signTransaction") : i < RetryIndex(s)
                  /\ options.onPaymentSuccess # "absent" =>
                        \E i \in At(s, "onPaymentSuccess") : i < RetryIndex(s)
            /\ (s.paymentConfig # NoConfig /\ ~IsAddress(s.paymentConfig.wallet)) =>
                  /\ Count(s, "getLatestBlockhash") = 0
                  /\ Count(s, "signTransaction") = 0
                  /\ Count(s, "PublicKey") = 1 =>
                        (s.settled = "rejected" /\ s.caught = ErrAddress)

\* a challenge with a malformed payout address has been rejected at the
\* address resolution, after onPaymentStart and the wallet's identity read
C17_Witness ==
    \E c \in DOMAIN calls :
        /\ calls[c].caught = ErrAddress
        /\ Count(calls[c], "onPaymentStart") = 1
        /\ Count(calls[c], "connect") = 1

\* the operations that are requests to the wallet or the RPC endpoint, and
\* the observer callbacks
OnceOps ==
    {"connect", "getLatestBlockhash", "signTransaction",
     "onPaymentStart", "onPaymentSuccess", "onPaymentError"}

\* C18: a call issues the wallet connect request, the RPC recency fetch and
\* the signing request at most once each and invokes each observer callback
\* at most once; once an operation has failed (the catch block was entered)
\* the call is over, and nothing but the onPaymentError notification follows
\* the failure.
C18_NothingIsRepeated ==
    \A c \in DOMAIN calls :
        LET s == calls[c]
        IN  /\ \A op \in OnceOps : Count(s, op) <= 1
            /\ s.caught # "" =>
                  /\ s.pc = "done"
                  /\ s.settled = "rejected"
                  /\ \A i \in At(s, "onPaymentError") : i = Len(s.log)

\* the signing request was rejected and reported, and it was issued once
C18_Witness ==
    \E c \in DOMAIN calls :
        /\ calls[c].caught = ErrSign
        /\ Count(calls[c], "onPaymentError") = 1
        /\ Count(calls[c], "signTransaction") = 1
        /\ Count(calls[c], "connect") = 1

\* the stages of a call, in the order of the code: the Interceptor (initial
\* fetch, challenge body), the Acquirer (connect, RPC fetch, signing), the
\* Dispatcher (retried fetch), the end
Stage(pc) ==
    CASE pc = "idle" -> 0
      [] pc = "fetch1" -> 1
      [] pc = "json" -> 2
      [] pc = "connect" -> 3
      [] pc = "rpc" -> 4
      [] pc = "sign" -> 5
      [] pc = "fetch2" -> 6
      [] pc = "done" -> 7

\* a step never takes a call back to an earlier stage, and a call that
\* moves moves on
MovesForward ==
    \A c \in DOMAIN calls :
        calls'[c] # calls[c] => Stage(calls'[c].pc) > Stage(calls[c].pc)

\* C19: provided every external operation a call awaits eventually
\* completes, every call that was made eventually completes, returned or
\* rejected; and control only moves forward through the stages.
C19_EveryCallCompletes ==
    /\ \A c \in {"call1"} :
          (calls[c].pc # "idle") ~>
              (calls[c].pc = "done" /\ calls[c].settled # "pending")
    /\ [][MovesForward]_vars

\* a call has gone through every stage and completed
C19_Witness ==
    \E c \in DOMAIN calls :
        /\ calls[c].pc = "done"
        /\ calls[c].settled = "returned"
        /\ Count(calls[c], "connect") = 1
        /\ RetryIssued(calls[c])

=============================================================================
